---- MODULE Spec2Model ----
(***************************************************************************)
(* stretchbox: the Solver facade (src/src/lib.rs) over two keyed trees,    *)
(* the constraint-key -> frame-key map and the dirty flag, and the layout  *)
(* solver (src/src/solver/mod.rs).                                         *)
(*                                                                         *)
(* Lengths are f64 in the source.  The model uses integers; every value    *)
(* that enters the model is a multiple of 4, so that the divisions the     *)
(* solver performs (a half for Align::Middle, a share of the Scale weight  *)
(* total) are exact on the trees explored.                                 *)
(***************************************************************************)
EXTENDS Integers, Sequences, FiniteSets, TLC

\* Bounds of the exploration.
MaxKeys == 3
StackDepth == 3

\* Option::None, for keys and for Option<f64>.
None == 0

Max(a, b) == IF a >= b THEN a ELSE b
Min(a, b) == IF a <= b THEN a ELSE b

(***************************************************************************)
(* Values: FillType, Fill, Padding, Content, Constraint, Frame.            *)
(***************************************************************************)
Exact(v) == [t |-> "Exact", v |-> v]
Scale(w) == [t |-> "Scale", v |-> w]
Minimize == [t |-> "Minimize", v |-> 0]

\* Fill::Absolute { x, y } and Fill::Relative { main, cross }: a is x or main,
\* b is y or cross.
Absolute(x, y) == [kind |-> "Absolute", a |-> x, b |-> y]
Relative(main, cross) == [kind |-> "Relative", a |-> main, b |-> cross]

Padding(left, right, top, bottom) ==
    [left |-> left, right |-> right, top |-> top, bottom |-> bottom]

Content(direction, padding, align_main, align_cross) ==
    [direction |-> direction, padding |-> padding,
     align_main |-> align_main, align_cross |-> align_cross]

Constraint(fill, content) == [fill |-> fill, content |-> content]

Frame(offset_x, length_x, offset_y, length_y) ==
    [offset_x |-> offset_x, length_x |-> length_x,
     offset_y |-> offset_y, length_y |-> length_y]

\* Constraint::default(): Relative Scale(1)/Scale(1), Direction::Vertical,
\* no padding, Align::Start on both axes.
DefaultConstraint ==
    Constraint(Relative(Scale(1), Scale(1)),
               Content("Vertical", Padding(0, 0, 0, 0), "Start", "Start"))

\* Fill::to_absolute_fill(direction): Absolute stays; Relative { main, cross }
\* puts main on the axis of the direction.
ToAbsoluteFill(fill, direction) ==
    IF fill.kind = "Absolute" THEN [x |-> fill.a, y |-> fill.b]
    ELSE IF direction = "Horizontal" THEN [x |-> fill.a, y |-> fill.b]
    ELSE [x |-> fill.b, y |-> fill.a]

ToAbsoluteFillHorizontal(fill) == ToAbsoluteFill(fill, "Horizontal")

(***************************************************************************)
(* The keyed tree store (cherrytree::Tree over a slotmap).  A tree is      *)
(* [root_key, nodes]; nodes maps each key to [value, parent_key,           *)
(* child_keys], child_keys an ordered sequence without repetition.         *)
(***************************************************************************)
EmptyFcn == [x \in {} |-> None]

TreeNew == [root_key |-> None, nodes |-> EmptyFcn]

TreeContains(t, k) == k \in DOMAIN t.nodes

TreeIsEmpty(t) == DOMAIN t.nodes = {}

TreeGet(t, k) == IF TreeContains(t, k) THEN t.nodes[k] ELSE None

SeqToSet(s) == {s[i] : i \in DOMAIN s}

SeqWithout(s, k) == SelectSeq(s, LAMBDA x : x # k)

RECURSIVE Subtree(_, _)
\* k and every descendant of k.
Subtree(t, k) ==
    {k} \cup UNION {Subtree(t, t.nodes[k].child_keys[i]) :
                        i \in DOMAIN t.nodes[k].child_keys}

\* Tree::insert_root_with_capacity: the new root replaces the whole tree.
TreeInsertRoot(t, k, value) ==
    [root_key |-> k,
     nodes |-> (k :> [value |-> value, parent_key |-> None, child_keys |-> <<>>])]

\* Tree::insert_with_capacity, for a parent the tree contains.
TreeInsert(t, k, value, parent_key) ==
    [t EXCEPT !.nodes =
        (k :> [value |-> value, parent_key |-> parent_key, child_keys |-> <<>>])
        @@ [@ EXCEPT ![parent_key].child_keys = Append(@, k)]]

\* Tree::remove, for a key the tree contains: the node and its subtree go.
TreeRemove(t, k) ==
    LET gone == Subtree(t, k)
        p == t.nodes[k].parent_key
        kept == [j \in DOMAIN t.nodes \ gone |-> t.nodes[j]]
    IN  [root_key |-> IF t.root_key \in gone THEN None ELSE t.root_key,
         nodes |-> IF p = None THEN kept
                   ELSE [kept EXCEPT ![p].child_keys = SeqWithout(@, k)]]

\* Tree::reorder_children succeeds when the new order holds exactly the
\* node's child keys.
TreeCanReorder(t, k, order) ==
    /\ TreeContains(t, k)
    /\ Len(order) = Len(t.nodes[k].child_keys)
    /\ SeqToSet(order) = SeqToSet(t.nodes[k].child_keys)

TreeReorder(t, k, order) == [t EXCEPT !.nodes[k].child_keys = order]

\* Tree::rebase succeeds when both keys exist and the new parent is neither
\* the node nor one of its descendants.
TreeCanRebase(t, k, new_parent_key) ==
    /\ TreeContains(t, k)
    /\ TreeContains(t, new_parent_key)
    /\ new_parent_key \notin Subtree(t, k)

TreeRebase(t, k, new_parent_key) ==
    LET p == t.nodes[k].parent_key
        cut == [t.nodes EXCEPT ![p].child_keys = SeqWithout(@, k)]
    IN  [t EXCEPT !.nodes =
            [cut EXCEPT ![new_parent_key].child_keys = Append(@, k),
                        ![k].parent_key = new_parent_key]]

\* Tree::set, for a key the tree contains.
TreeSet(t, k, value) == [t EXCEPT !.nodes[k].value = value]

(***************************************************************************)
(* The layout solver (src/src/solver/mod.rs).  A panic (todo!(),           *)
(* unreachable!(), the stack running out) is the result [panic |-> TRUE].  *)
(***************************************************************************)
Half(v) == v \div 2

\* (scale_x as f64) / (total_scale_x as f64) * remaining_length_x
Proportion(scale_x, total_scale_x, remaining_length_x) ==
    (scale_x * remaining_length_x) \div total_scale_x

AlignGap(align, remaining_length) ==
    IF remaining_length = 0 THEN 0
    ELSE CASE align = "Start" -> 0
           [] align = "Middle" -> Half(remaining_length)
           [] align = "End" -> remaining_length

\* A content frame whose start is not clamped to the node's length.
ContentFrameWithoutClamp(padding, length_x, length_y) ==
    Frame(padding.left, Max(Max(length_x - padding.right, 0) - padding.left, 0),
          padding.top, Max(Max(length_y - padding.bottom, 0) - padding.top, 0))

GenerateContentFrame(padding, length_x, length_y) ==
    LET content_start_x == Min(padding.left, length_x)
        content_end_x == Max(length_x - padding.right, 0)
        content_length_x == Max(content_end_x - content_start_x, 0)
        content_start_y == Min(padding.top, length_y)
        content_end_y == Max(length_y - padding.bottom, 0)
        content_length_y == Max(content_end_y - content_start_y, 0)
    IN  Frame(content_start_x, content_length_x, content_start_y, content_length_y)

Panicked == [panic |-> TRUE]

\* The body of find_minimizing_length's loop for one sibling; sub is the
\* result of the recursive call the two Minimize arms make.  st holds
\* remaining_length_x and max_seen_length_y.
FindMinimizingStep(value, absolute_fill, sub, st) ==
    IF (absolute_fill.x.t = "Minimize" \/ absolute_fill.y.t = "Minimize") /\ sub.panic
    THEN [st EXCEPT !.panic = TRUE]
    ELSE
      LET pad == value.content.padding
          length_x ==
              Min(CASE absolute_fill.x.t = "Exact" ->
                         absolute_fill.x.v + pad.left + pad.right
                    [] absolute_fill.x.t = "Scale" -> pad.left + pad.right
                    [] absolute_fill.x.t = "Minimize" -> sub.x + pad.left + pad.right,
                  st.remaining_length_x)
          length_y ==
              CASE absolute_fill.y.t = "Exact" ->
                     absolute_fill.y.v + pad.top + pad.bottom
                [] absolute_fill.y.t = "Scale" -> pad.top + pad.bottom
                [] absolute_fill.y.t = "Minimize" -> sub.y
      IN  [panic |-> FALSE,
           remaining_length_x |-> st.remaining_length_x - length_x,
           max_seen_length_y |-> Max(st.max_seen_length_y, length_y)]

\* find_minimizing_length's result from the state its loop ends in.
FindMinimizingResult(st, max_length_x, max_length_y) ==
    IF st.panic THEN Panicked
    ELSE [panic |-> FALSE,
          x |-> max_length_x - st.remaining_length_x,
          y |-> Min(st.max_seen_length_y, max_length_y)]

RECURSIVE FindMinimizingLength(_, _, _, _, _, _)
RECURSIVE FindMinimizingLoop(_, _, _, _, _, _)
\* One sibling of the loop.  The recursive calls of the source pass
\* constraint_keys, the list being iterated, and the sibling's direction.
FindMinimizingSibling(ct, constraint_keys, value, st, max_length_y, depth) ==
    FindMinimizingStep(value, ToAbsoluteFillHorizontal(value.fill),
        FindMinimizingLength(ct, constraint_keys, value.content.direction,
                             st.remaining_length_x, max_length_y, depth + 1),
        st)

\* The for loop of find_minimizing_length from sibling i on.
FindMinimizingLoop(ct, constraint_keys, i, st, max_length_y, depth) ==
    IF st.panic \/ i > Len(constraint_keys) THEN st
    ELSE FindMinimizingLoop(ct, constraint_keys, i + 1,
             FindMinimizingSibling(ct, constraint_keys,
                 ct.nodes[constraint_keys[i]].value, st, max_length_y, depth),
             max_length_y, depth)

\* find_minimizing_length at call depth `depth`: beyond StackDepth frames the
\* stack is exhausted.  Direction::Vertical is todo!().
FindMinimizingLength(ct, constraint_keys, direction, max_length_x, max_length_y, depth) ==
    IF depth > StackDepth THEN Panicked
    ELSE IF direction = "Vertical" THEN Panicked
    ELSE FindMinimizingResult(
             FindMinimizingLoop(ct, constraint_keys, 1,
                 [panic |-> FALSE, remaining_length_x |-> max_length_x,
                  max_seen_length_y |-> 0],
                 max_length_y, depth),
             max_length_x, max_length_y)

(***************************************************************************)
(* The first pass of solve_child_keys: the map over the children that is   *)
(* collected into `lengths`.  st holds remaining_length_x, total_scale_x   *)
(* and the lengths collected so far.                                       *)
(***************************************************************************)
NoCache == [some |-> FALSE, y |-> None]

\* offset_y, and the tuple pushed onto `lengths`.
ChildPlaced(absolute_fill, content_frame, parent_content, st, has_length_x, length_x, length_y) ==
    [st EXCEPT !.lengths = Append(@,
        [absolute_fill |-> absolute_fill,
         has_length_x |-> has_length_x, length_x |-> length_x,
         length_y |-> length_y,
         offset_y |-> content_frame.offset_y
                      + AlignGap(parent_content.align_cross,
                                 content_frame.length_y - length_y)])]

\* The Minimize arm of the match on absolute_fill.y when nothing is cached.
ChildCrossMinimize(absolute_fill, content_frame, parent_content, st, has_length_x, length_x, minimizing) ==
    IF minimizing.panic THEN [st EXCEPT !.panic = TRUE]
    ELSE ChildPlaced(absolute_fill, content_frame, parent_content, st,
                     has_length_x, length_x, minimizing.y)

\* The match on absolute_fill.y; st is already updated for the main axis.
ChildCrossLength(ct, node, absolute_fill, content_frame, parent_content, st, has_length_x, length_x, cache) ==
    CASE absolute_fill.y.t = "Exact" ->
           ChildPlaced(absolute_fill, content_frame, parent_content, st,
                       has_length_x, length_x,
                       Min(absolute_fill.y.v, content_frame.length_y))
      [] absolute_fill.y.t = "Scale" ->
           ChildPlaced(absolute_fill, content_frame, parent_content, st,
                       has_length_x, length_x,
                       IF absolute_fill.y.v = 0 THEN 0 ELSE content_frame.length_y)
      [] absolute_fill.y.t = "Minimize" ->
           IF cache.some
           THEN ChildPlaced(absolute_fill, content_frame, parent_content, st,
                            has_length_x, length_x, cache.y)
           ELSE ChildCrossMinimize(absolute_fill, content_frame, parent_content, st,
                    has_length_x, length_x,
                    FindMinimizingLength(ct, node.child_keys,
                        node.value.content.direction,
                        st.remaining_length_x, content_frame.length_y, 1))

\* The Minimize arm of the match on absolute_fill.x.
ChildMainMinimize(ct, node, absolute_fill, content_frame, parent_content, st, minimizing) ==
    IF minimizing.panic THEN [st EXCEPT !.panic = TRUE]
    ELSE ChildCrossLength(ct, node, absolute_fill, content_frame, parent_content,
             [st EXCEPT !.remaining_length_x = @ - minimizing.x],
             TRUE, minimizing.x, [some |-> TRUE, y |-> minimizing.y])

\* The match on absolute_fill.x.
ChildMainLength(ct, node, absolute_fill, content_frame, parent_content, st) ==
    CASE absolute_fill.x.t = "Exact" ->
           ChildCrossLength(ct, node, absolute_fill, content_frame, parent_content,
               [st EXCEPT !.remaining_length_x = @ - Min(absolute_fill.x.v, @)],
               TRUE, Min(absolute_fill.x.v, st.remaining_length_x), NoCache)
      [] absolute_fill.x.t = "Scale" ->
           ChildCrossLength(ct, node, absolute_fill, content_frame, parent_content,
               [st EXCEPT !.total_scale_x = @ + absolute_fill.x.v],
               FALSE, None, NoCache)
      [] absolute_fill.x.t = "Minimize" ->
           ChildMainMinimize(ct, node, absolute_fill, content_frame, parent_content, st,
               FindMinimizingLength(ct, node.child_keys, node.value.content.direction,
                   st.remaining_length_x, content_frame.length_y, 1))

RECURSIVE ChildLengths(_, _, _, _, _, _)
\* The map from child i on.
ChildLengths(ct, constraint_keys, i, content_frame, parent_content, st) ==
    IF st.panic \/ i > Len(constraint_keys) THEN st
    ELSE ChildLengths(ct, constraint_keys, i + 1, content_frame, parent_content,
             ChildMainLength(ct, ct.nodes[constraint_keys[i]],
                 ToAbsoluteFillHorizontal(ct.nodes[constraint_keys[i]].value.fill),
                 content_frame, parent_content, st))

\* A second pass that gives every Scale child the whole remaining length.
ScaleLengthsUnshared(lengths, total_scale_x, remaining_length_x) ==
    IF total_scale_x = 0 THEN lengths
    ELSE [i \in DOMAIN lengths |->
            IF lengths[i].absolute_fill.x.t = "Scale"
            THEN [lengths[i] EXCEPT !.has_length_x = TRUE,
                                    !.length_x = remaining_length_x]
            ELSE lengths[i]]

\* The second pass: with a nonzero weight total every Scale child's length_x
\* becomes its share of the remaining length.
ScaleLengths(lengths, total_scale_x, remaining_length_x) ==
    IF total_scale_x = 0 THEN lengths
    ELSE [i \in DOMAIN lengths |->
            IF lengths[i].absolute_fill.x.t = "Scale"
            THEN [lengths[i] EXCEPT
                    !.has_length_x = TRUE,
                    !.length_x = Proportion(lengths[i].absolute_fill.x.v,
                                            total_scale_x, remaining_length_x)]
            ELSE lengths[i]]

\* The offset_x every child frame of one parent is written with.
ChildOffsetX(content_frame, parent_content, total_scale_x, remaining_length_x) ==
    content_frame.offset_x
    + (IF total_scale_x = 0
       THEN AlignGap(parent_content.align_main, remaining_length_x)
       ELSE 0)

\* The frame of one child: length_x.unwrap_or_default().
ChildFrame(offset_x, length) ==
    Frame(offset_x, IF length.has_length_x THEN length.length_x ELSE 0,
          length.offset_y, length.length_y)

RECURSIVE SolveChildKeys(_, _, _, _, _, _)
\* The body of the last loop of solve_child_keys for one child: insert its
\* frame under parent_frame_key, record it in key_map, recurse into the
\* child.  acc is [panic, frame_tree, key_map, next]: the two outputs and
\* the frame key the next insertion gets.
InsertFrame(acc, ct, constraint_key, node, frame, parent_frame_key) ==
    SolveChildKeys(
        [acc EXCEPT
           !.frame_tree = TreeInsert(@, acc.next, frame, parent_frame_key),
           !.key_map = (constraint_key :> acc.next) @@ @,
           !.next = @ + 1],
        ct, node.child_keys, acc.next,
        GenerateContentFrame(node.value.content.padding,
                             frame.length_x, frame.length_y),
        node.value.content)

RECURSIVE InsertFrames(_, _, _, _, _, _, _)
\* The last loop from child i on.
InsertFrames(acc, ct, constraint_keys, i, lengths, offset_x, parent_frame_key) ==
    IF acc.panic \/ i > Len(constraint_keys) THEN acc
    ELSE InsertFrames(
             InsertFrame(acc, ct, constraint_keys[i], ct.nodes[constraint_keys[i]],
                         ChildFrame(offset_x, lengths[i]), parent_frame_key),
             ct, constraint_keys, i + 1, lengths, offset_x, parent_frame_key)

\* solve_child_keys after its first pass ended in st.
SolveChildFrames(acc, ct, constraint_keys, parent_frame_key, content_frame, parent_content, st) ==
    IF st.panic THEN [acc EXCEPT !.panic = TRUE]
    ELSE InsertFrames(acc, ct, constraint_keys, 1,
             ScaleLengths(st.lengths, st.total_scale_x, st.remaining_length_x),
             ChildOffsetX(content_frame, parent_content,
                          st.total_scale_x, st.remaining_length_x),
             parent_frame_key)

\* solve_child_keys.  Direction::Vertical is todo!().
SolveChildKeys(acc, ct, constraint_keys, parent_frame_key, content_frame, parent_content) ==
    IF acc.panic THEN acc
    ELSE IF parent_content.direction = "Vertical" THEN [acc EXCEPT !.panic = TRUE]
    ELSE SolveChildFrames(acc, ct, constraint_keys, parent_frame_key,
             content_frame, parent_content,
             ChildLengths(ct, constraint_keys, 1, content_frame, parent_content,
                 [panic |-> FALSE,
                  remaining_length_x |-> content_frame.length_x,
                  total_scale_x |-> 0, lengths |-> <<>>]))

\* A root length that ignores a weight of 0.
RootLengthIgnoringWeight(fill_type, length) == length

\* The root frame of solve: Scale(0) on an axis gives length 0, any other
\* weight the length passed in.
RootLength(fill_type, length) == IF fill_type.v = 0 THEN 0 ELSE length

\* The key_map entries at the start of a pass, once the root frame is
\* inserted: Tree::insert_root empties the frame tree, and a slotmap never
\* hands a key out again, so every frame key of an earlier pass is a key of no
\* frame from here on.  The model writes such a key None and numbers the
\* frames of the current pass 1, 2, ... in insertion order.
Retired(km) == [k \in DOMAIN km |-> None]

\* solver::solve once the root's lengths are known.
SolveRoot(ct, ft, km, root_constraint_key, root_value, root_length_x, root_length_y) ==
    SolveChildKeys(
        [panic |-> FALSE,
         frame_tree |-> TreeInsertRoot(ft, 1, Frame(0, root_length_x, 0, root_length_y)),
         key_map |-> (root_constraint_key :> 1) @@ Retired(km),
         next |-> 2],
        ct, ct.nodes[root_constraint_key].child_keys, 1,
        GenerateContentFrame(root_value.content.padding, root_length_x, root_length_y),
        root_value.content)

\* solver::solve with the root's fill made absolute; a fill that is not Scale
\* on both axes is unreachable!().
SolveWithFill(ct, ft, km, absolute_fill, length_x, length_y) ==
    IF absolute_fill.x.t # "Scale" \/ absolute_fill.y.t # "Scale"
    THEN [panic |-> TRUE, frame_tree |-> ft, key_map |-> km, next |-> 1]
    ELSE SolveRoot(ct, ft, km, ct.root_key, ct.nodes[ct.root_key].value,
                   RootLength(absolute_fill.x, length_x),
                   RootLength(absolute_fill.y, length_y))

\* solver::solve on a non-empty constraint tree.
SolverSolve(ct, ft, km, length_x, length_y) ==
    SolveWithFill(ct, ft, km,
        ToAbsoluteFill(ct.nodes[ct.root_key].value.fill, "Vertical"),
        length_x, length_y)

(***************************************************************************)
(* The inputs explored.                                                    *)
(***************************************************************************)
NoPadding == Padding(0, 0, 0, 0)

\* A row container: Scale on both axes, padded left and right.
RowConstraint ==
    Constraint(Relative(Scale(1), Scale(1)),
               Content("Horizontal", Padding(4, 4, 0, 0), "Middle", "End"))

\* Scale(0) on the main axis, Scale(1) on the cross axis.
FlatConstraint ==
    Constraint(Relative(Scale(0), Scale(1)),
               Content("Horizontal", NoPadding, "Start", "Middle"))

ExactConstraint ==
    Constraint(Absolute(Exact(8), Scale(1)),
               Content("Horizontal", NoPadding, "Start", "Start"))

MinimizeConstraint ==
    Constraint(Absolute(Minimize, Exact(4)),
               Content("Horizontal", NoPadding, "End", "Start"))

CrossMinimizeConstraint ==
    Constraint(Relative(Scale(1), Minimize),
               Content("Horizontal", NoPadding, "Start", "Start"))

\* The constraints passed to insert_root: three it accepts, three it rejects.
RootConstraints ==
    {DefaultConstraint, RowConstraint, FlatConstraint, ExactConstraint,
     MinimizeConstraint, CrossMinimizeConstraint}

\* The constraints passed to insert and to set.
InsertConstraints == {MinimizeConstraint}

SetConstraints == {DefaultConstraint}

\* The (length_x, length_y) pairs passed to solve.
SolveLengths == {<<-4, 8>>, <<16, 16>>}

(***************************************************************************)
(* The Solver facade (src/src/lib.rs).                                     *)
(*   next_key   the constraint key the next insertion returns (slotmap     *)
(*              keys are never handed out twice)                           *)
(*   ret        the last call: its name and its result ("ok", "fail",      *)
(*              "noop", "panic")                                           *)
(***************************************************************************)
VARIABLES constraint_tree, frame_tree, key_map, is_dirty, next_key, ret

vars == <<constraint_tree, frame_tree, key_map, is_dirty, next_key, ret>>

solver == <<constraint_tree, frame_tree, key_map, is_dirty>>

Returned(op, res) == [op |-> op, res |-> res]

\* The keys a caller can hold: every key returned so far, and the null key.
CallerKeys == 0 .. (next_key - 1)

\* No call has panicked: a panic ends the program.
Running == ret.res # "panic"

\* Solver::default()
Init ==
    /\ constraint_tree = TreeNew
    /\ frame_tree = TreeNew
    /\ key_map = EmptyFcn
    /\ is_dirty = FALSE
    /\ next_key = 1
    /\ ret = Returned("default", "ok")

\* Solver::contains
Contains(constraint_key) == TreeContains(constraint_tree, constraint_key)

\* Solver::get
Get(constraint_key) == TreeGet(constraint_tree, constraint_key)

\* Solver::get_frame: [res |-> "None"], or [res |-> "Some", value |-> frame];
\* [res |-> "panic"] stands for the unwrap of a missing key_map entry or frame.
GetFrame(constraint_key) ==
    IF ~TreeContains(constraint_tree, constraint_key) THEN [res |-> "None"]
    ELSE IF is_dirty THEN [res |-> "None"]
    ELSE IF constraint_key \notin DOMAIN key_map THEN [res |-> "panic"]
    ELSE IF ~TreeContains(frame_tree, key_map[constraint_key]) THEN [res |-> "panic"]
    ELSE [res |-> "Some", value |-> frame_tree.nodes[key_map[constraint_key]].value]

\* A root check that accepts the Absolute form only.
OnlyAbsoluteScales(constraint) ==
    /\ constraint.fill.kind = "Absolute"
    /\ constraint.fill.a.t = "Scale"
    /\ constraint.fill.b.t = "Scale"

BothFillsAreScales(constraint) ==
    LET both_fills_are_absolute_scales ==
            /\ constraint.fill.kind = "Absolute"
            /\ constraint.fill.a.t = "Scale"
            /\ constraint.fill.b.t = "Scale"
        both_fills_are_relative_scales ==
            /\ constraint.fill.kind = "Relative"
            /\ constraint.fill.a.t = "Scale"
            /\ constraint.fill.b.t = "Scale"
    IN  both_fills_are_absolute_scales \/ both_fills_are_relative_scales

\* An insert_root that keeps the nodes of the tree it is given.
InsertRootKeepingNodes(constraint) ==
    /\ Running
    /\ IF BothFillsAreScales(constraint)
       THEN /\ next_key <= MaxKeys
            /\ constraint_tree' =
                   [root_key |-> next_key,
                    nodes |-> [k \in DOMAIN constraint_tree.nodes \cup {next_key} |->
                                 IF k = next_key
                                 THEN TreeInsertRoot(constraint_tree, next_key, constraint).nodes[k]
                                 ELSE constraint_tree.nodes[k]]]
            /\ next_key' = next_key + 1
            /\ is_dirty' = TRUE
            /\ ret' = Returned("insert_root", "ok")
            /\ UNCHANGED <<frame_tree, key_map>>
       ELSE /\ ret' = Returned("insert_root", "fail")
            /\ UNCHANGED <<solver, next_key>>

\* Solver::insert_root / insert_root_with_capacity
InsertRoot(constraint) ==
    /\ Running
    /\ IF BothFillsAreScales(constraint)
       THEN /\ next_key <= MaxKeys
            /\ constraint_tree' = TreeInsertRoot(constraint_tree, next_key, constraint)
            /\ next_key' = next_key + 1
            /\ is_dirty' = TRUE
            /\ ret' = Returned("insert_root", "ok")
            /\ UNCHANGED <<frame_tree, key_map>>
       ELSE /\ ret' = Returned("insert_root", "fail")
            /\ UNCHANGED <<solver, next_key>>

\* Solver::insert / insert_with_capacity
Insert(constraint, parent_constraint_key) ==
    /\ Running
    /\ IF TreeContains(constraint_tree, parent_constraint_key)
       THEN /\ next_key <= MaxKeys
            /\ constraint_tree' =
                   TreeInsert(constraint_tree, next_key, constraint, parent_constraint_key)
            /\ next_key' = next_key + 1
            /\ is_dirty' = TRUE
            /\ ret' = Returned("insert", "ok")
            /\ UNCHANGED <<frame_tree, key_map>>
       ELSE /\ ret' = Returned("insert", "fail")
            /\ UNCHANGED <<solver, next_key>>

\* A reorder_children that marks the solver dirty when it fails.
ReorderChildrenAlwaysDirty(constraint_key, order) ==
    /\ Running
    /\ is_dirty' = TRUE
    /\ IF TreeCanReorder(constraint_tree, constraint_key, order)
       THEN /\ constraint_tree' = TreeReorder(constraint_tree, constraint_key, order)
            /\ ret' = Returned("reorder_children", "ok")
            /\ UNCHANGED <<frame_tree, key_map, next_key>>
       ELSE /\ ret' = Returned("reorder_children", "fail")
            /\ UNCHANGED <<constraint_tree, frame_tree, key_map, next_key>>

\* Solver::reorder_children; order is what the caller's function returns.
ReorderChildren(constraint_key, order) ==
    /\ Running
    /\ IF TreeCanReorder(constraint_tree, constraint_key, order)
       THEN /\ constraint_tree' = TreeReorder(constraint_tree, constraint_key, order)
            /\ is_dirty' = TRUE
            /\ ret' = Returned("reorder_children", "ok")
            /\ UNCHANGED <<frame_tree, key_map, next_key>>
       ELSE /\ ret' = Returned("reorder_children", "fail")
            /\ UNCHANGED <<solver, next_key>>

\* A remove that leaves the dirty flag alone when it empties the tree.
RemoveCleanWhenEmptied(constraint_key) ==
    /\ Running
    /\ IF TreeContains(constraint_tree, constraint_key)
       THEN /\ constraint_tree' = TreeRemove(constraint_tree, constraint_key)
            /\ is_dirty' = (is_dirty \/ constraint_key # constraint_tree.root_key)
            /\ ret' = Returned("remove", "ok")
            /\ UNCHANGED <<frame_tree, key_map, next_key>>
       ELSE /\ ret' = Returned("remove", "fail")
            /\ UNCHANGED <<solver, next_key>>

\* Solver::remove
Remove(constraint_key) ==
    /\ Running
    /\ IF TreeContains(constraint_tree, constraint_key)
       THEN /\ constraint_tree' = TreeRemove(constraint_tree, constraint_key)
            /\ is_dirty' = TRUE
            /\ ret' = Returned("remove", "ok")
            /\ UNCHANGED <<frame_tree, key_map, next_key>>
       ELSE /\ ret' = Returned("remove", "fail")
            /\ UNCHANGED <<solver, next_key>>

\* A rebase that does not mark the solver dirty.
RebaseKeepsClean(constraint_key, new_parent_constraint_key) ==
    /\ Running
    /\ IF TreeCanRebase(constraint_tree, constraint_key, new_parent_constraint_key)
       THEN /\ constraint_tree' =
                   TreeRebase(constraint_tree, constraint_key, new_parent_constraint_key)
            /\ ret' = Returned("rebase", "ok")
            /\ UNCHANGED <<frame_tree, key_map, is_dirty, next_key>>
       ELSE /\ ret' = Returned("rebase", "fail")
            /\ UNCHANGED <<solver, next_key>>

\* Solver::rebase
Rebase(constraint_key, new_parent_constraint_key) ==
    /\ Running
    /\ IF TreeCanRebase(constraint_tree, constraint_key, new_parent_constraint_key)
       THEN /\ constraint_tree' =
                   TreeRebase(constraint_tree, constraint_key, new_parent_constraint_key)
            /\ is_dirty' = TRUE
            /\ ret' = Returned("rebase", "ok")
            /\ UNCHANGED <<frame_tree, key_map, next_key>>
       ELSE /\ ret' = Returned("rebase", "fail")
            /\ UNCHANGED <<solver, next_key>>

\* Solver::clear
Clear ==
    /\ Running
    /\ constraint_tree' = TreeNew
    /\ frame_tree' = TreeNew
    /\ key_map' = EmptyFcn
    /\ is_dirty' = FALSE
    /\ ret' = Returned("clear", "ok")
    /\ UNCHANGED next_key

\* A set that does not mark the solver dirty.
SetKeepsClean(constraint_key, new_constraint) ==
    /\ Running
    /\ IF TreeContains(constraint_tree, constraint_key)
       THEN /\ constraint_tree' = TreeSet(constraint_tree, constraint_key, new_constraint)
            /\ ret' = Returned("set", "ok")
            /\ UNCHANGED <<frame_tree, key_map, is_dirty, next_key>>
       ELSE /\ ret' = Returned("set", "fail")
            /\ UNCHANGED <<solver, next_key>>

\* Solver::set
Set(constraint_key, new_constraint) ==
    /\ Running
    /\ IF TreeContains(constraint_tree, constraint_key)
       THEN /\ constraint_tree' = TreeSet(constraint_tree, constraint_key, new_constraint)
            /\ is_dirty' = TRUE
            /\ ret' = Returned("set", "ok")
            /\ UNCHANGED <<frame_tree, key_map, next_key>>
       ELSE /\ ret' = Returned("set", "fail")
            /\ UNCHANGED <<solver, next_key>>

\* The (true, false) arm of Solver::solve, r being what solver::solve did.
Solved(r) ==
    IF r.panic
    THEN /\ ret' = Returned("solve", "panic")
         /\ UNCHANGED <<solver, next_key>>
    ELSE /\ frame_tree' = r.frame_tree
         /\ key_map' = r.key_map
         /\ is_dirty' = FALSE
         /\ ret' = Returned("solve", "ok")
         /\ UNCHANGED <<constraint_tree, next_key>>

\* A solve that recomputes whether or not the solver is dirty.
SolveAlways(length_x, length_y) ==
    /\ Running
    /\ IF TreeIsEmpty(constraint_tree)
       THEN /\ is_dirty' = FALSE
            /\ ret' = Returned("solve", "ok")
            /\ UNCHANGED <<constraint_tree, frame_tree, key_map, next_key>>
       ELSE Solved(SolverSolve(constraint_tree, frame_tree, key_map,
                               Max(length_x, 0), Max(length_y, 0)))

\* Solver::solve
Solve(length_x, length_y) ==
    /\ Running
    /\ IF ~is_dirty
       THEN /\ ret' = Returned("solve", "noop")
            /\ UNCHANGED <<solver, next_key>>
       ELSE IF TreeIsEmpty(constraint_tree)
       THEN /\ is_dirty' = FALSE
            /\ ret' = Returned("solve", "ok")
            /\ UNCHANGED <<constraint_tree, frame_tree, key_map, next_key>>
       ELSE Solved(SolverSolve(constraint_tree, frame_tree, key_map,
                               Max(length_x, 0), Max(length_y, 0)))

RECURSIVE Orderings(_)
\* The orders of the keys of a set.
Orderings(keys) ==
    IF keys = {} THEN {<<>>}
    ELSE UNION {{<<k>> \o rest : rest \in Orderings(keys \ {k})} : k \in keys}

\* What a caller's reordering function returns for the node's child keys:
\* a permutation of them, or the child keys with the last one dropped, or
\* with the node's own key added.  For a key the tree does not contain the
\* function is never called.
Reorderings(constraint_key) ==
    IF ~TreeContains(constraint_tree, constraint_key) THEN {<<>>}
    ELSE LET child_keys == constraint_tree.nodes[constraint_key].child_keys
         IN  Orderings(SeqToSet(child_keys))
             \cup {Append(child_keys, constraint_key)}
             \cup {SubSeq(child_keys, 1, Len(child_keys) - 1)}

Next ==
    \/ \E c \in RootConstraints : InsertRoot(c)
    \/ \E c \in InsertConstraints, p \in CallerKeys : Insert(c, p)
    \/ \E k \in CallerKeys : \E order \in Reorderings(k) : ReorderChildren(k, order)
    \/ \E k \in CallerKeys : Remove(k)
    \/ \E k \in CallerKeys, p \in CallerKeys : Rebase(k, p)
    \/ Clear
    \/ \E k \in CallerKeys, c \in SetConstraints : Set(k, c)
    \/ \E l \in SolveLengths : Solve(l[1], l[2])

Spec == Init /\ [][Next]_vars

(***************************************************************************)
(* Properties.                                                             *)
(***************************************************************************)
MutationOps == {"insert_root", "insert", "remove", "reorder_children", "rebase", "set"}

\* The last call was a mutation that succeeded.
Mutated == ret.op \in MutationOps /\ ret.res = "ok"

\* What a solver pass over the present constraint tree computes for the
\* lengths l, starting from nothing.
FreshSolve(l) == SolverSolve(constraint_tree, TreeNew, EmptyFcn, Max(l[1], 0), Max(l[2], 0))

\* The frame get_frame returns for constraint_key is the one a pass over the
\* present constraint tree computes, for some lengths.
IsFresh(constraint_key) ==
    \E l \in SolveLengths :
        /\ ~FreshSolve(l).panic
        /\ GetFrame(constraint_key).value
             = FreshSolve(l).frame_tree.nodes[FreshSolve(l).key_map[constraint_key]].value

\* get_frame is available only for a key in the tree while the solver is not
\* dirty, and then returns the frame of the present tree.
FrameOnlyWhenClean ==
    \A k \in CallerKeys :
        GetFrame(k).res = "Some" => Contains(k) /\ ~is_dirty /\ IsFresh(k)

\* After a mutation that succeeded get_frame is unavailable for every key.
NoFrameAfterMutation == Mutated' => \A k \in CallerKeys' : (GetFrame(k).res = "None")'

\* C1: get_frame(k) returns a frame only if k is in the constraint tree and
\* is_dirty() is false, the frame it returns is the frame of the present
\* tree, and after every successful mutation get_frame is unavailable for
\* every key, also the keys whose frame an earlier solve computed.
C1_NoStaleFrame == [](FrameOnlyWhenClean) /\ [][NoFrameAfterMutation]_vars

\* C1 witness: a child was inserted after a solve, and the root, whose frame
\* that solve computed, has no frame to read.
C1_Witness ==
    /\ ret = Returned("insert", "ok")
    /\ constraint_tree.root_key \in DOMAIN key_map
    /\ TreeContains(frame_tree, key_map[constraint_tree.root_key])
    /\ GetFrame(constraint_tree.root_key).res = "None"

\* C2: every successful insert_root, insert, remove, reorder_children, rebase
\* and set leaves is_dirty() true, and the flag goes from true to false only
\* in solve and in clear.
C2_DirtyUntilSolve ==
    [][/\ Mutated' => is_dirty'
       /\ (is_dirty /\ ~is_dirty') => ret'.op \in {"solve", "clear"}]_vars

\* C2 witness: a rebase succeeded on a solved tree and the solver is dirty.
C2_Witness ==
    /\ ret = Returned("rebase", "ok")
    /\ is_dirty
    /\ ~TreeIsEmpty(frame_tree)

\* The frame tree has the shape of the constraint tree under key_map.
Mirrors ==
    /\ DOMAIN key_map = DOMAIN constraint_tree.nodes
    /\ \A k \in DOMAIN key_map : TreeContains(frame_tree, key_map[k])
    /\ Cardinality(DOMAIN frame_tree.nodes) = Cardinality(DOMAIN constraint_tree.nodes)
    /\ \A k \in DOMAIN constraint_tree.nodes :
          /\ k \in DOMAIN key_map
          /\ TreeContains(frame_tree, key_map[k])
          /\ frame_tree.nodes[key_map[k]].child_keys
               = [i \in DOMAIN constraint_tree.nodes[k].child_keys |->
                    key_map[constraint_tree.nodes[k].child_keys[i]]]

\* C3: whenever is_dirty() is false, key_map has an entry for exactly the
\* keys of the constraint tree, each entry names a frame of the frame tree,
\* and the frame tree has one frame per constraint node in the same shape
\* and child order (no frame when the constraint tree is empty).
C3_FramesMirror == ~is_dirty => Mirrors

\* C4: no facade call panics: every call returns.
C4_NoPanic == ret.res # "panic"

\* C5: solve on a solver that is not dirty changes neither the frames
\* get_frame returns, nor key_map, nor the dirty flag, whatever the lengths;
\* and the dirty flag is false after every solve that returns.
C5_SolveNoop ==
    [][/\ (~is_dirty /\ ret'.op = "solve") =>
             /\ UNCHANGED <<constraint_tree, frame_tree, key_map, is_dirty>>
             /\ \A k \in CallerKeys : GetFrame(k)' = GetFrame(k)
       /\ (ret'.op = "solve" /\ ret'.res # "panic") => ~is_dirty']_vars

\* C5 witness: solve was called on a clean, solved, non-empty tree.
C5_Witness ==
    /\ ret = Returned("solve", "noop")
    /\ ~TreeIsEmpty(constraint_tree)
    /\ GetFrame(constraint_tree.root_key).res = "Some"

\* The root frame the claim states for the lengths l: offset (0, 0) and, on
\* each axis, 0 for weight 0 and otherwise the length clamped at 0.
RootFrameFor(l) ==
    LET fill == ToAbsoluteFill(constraint_tree.nodes[constraint_tree.root_key].value.fill,
                               "Vertical")
    IN  Frame(0, IF fill.x.v = 0 THEN 0 ELSE Max(l[1], 0),
              0, IF fill.y.v = 0 THEN 0 ELSE Max(l[2], 0))

RootFrameIs(l) ==
    /\ GetFrame(constraint_tree.root_key).res = "Some"
    /\ GetFrame(constraint_tree.root_key).value = RootFrameFor(l)

\* C6 as claimed: after any solve(length_x, length_y) that returns on a
\* non-empty tree the root frame is the one these lengths give.
C6_RootFrameAfterAnySolve ==
    [][\A l \in SolveLengths :
          (ret'.op = "solve" /\ ret'.res # "panic" /\ ~TreeIsEmpty(constraint_tree)
             /\ Solve(l[1], l[2]))
              => RootFrameIs(l)']_vars

\* C6 amended: after a solve(length_x, length_y) that is called on a dirty,
\* non-empty tree and returns, the root frame has offset (0, 0) and, on each
\* axis, length 0 if the root's Scale weight there is 0 and otherwise the
\* length passed to this call clamped at 0.
C6_RootFrameAfterDirtySolve ==
    [][\A l \in SolveLengths :
          (ret'.op = "solve" /\ is_dirty /\ ret'.res # "panic"
             /\ ~TreeIsEmpty(constraint_tree) /\ Solve(l[1], l[2]))
              => RootFrameIs(l)']_vars

\* C6 witness: a solve with a negative length_x ran on a tree whose root has
\* weight 0 on the y axis and a child: the root frame is all zero.
C6_Witness ==
    /\ ret = Returned("solve", "ok")
    /\ ~TreeIsEmpty(constraint_tree)
    /\ constraint_tree.nodes[constraint_tree.root_key].value = FlatConstraint
    /\ constraint_tree.nodes[constraint_tree.root_key].child_keys # <<>>
    /\ RootFrameIs(<<-4, 8>>)

\* The fill is Scale on both axes, in either form.
ScaleOnBothAxes(constraint) ==
    constraint.fill.a.t = "Scale" /\ constraint.fill.b.t = "Scale"

\* C7: insert_root(constraint) is rejected if and only if the fill is not
\* Scale on both axes, and a rejected call leaves the constraint tree, the
\* frames and the dirty flag as they were.
C7_RootRejection ==
    [][\A c \in RootConstraints :
          InsertRoot(c) =>
              /\ ret'.res = "fail" <=> ~ScaleOnBothAxes(c)
              /\ ret'.res = "fail" =>
                    UNCHANGED <<constraint_tree, frame_tree, key_map, is_dirty>>]_vars

\* C7 witness: insert_root was rejected on a solved tree, which is still
\* clean and still has its root frame.
C7_Witness ==
    /\ ret = Returned("insert_root", "fail")
    /\ ~is_dirty
    /\ ~TreeIsEmpty(constraint_tree)
    /\ GetFrame(constraint_tree.root_key).res = "Some"

\* The calls the claim says fail.
InsertFails(k) == ~Contains(k)
RebaseFails(k, p) == ~Contains(k) \/ ~Contains(p) \/ p \in Subtree(constraint_tree, k)
ReorderFails(k, order) ==
    \/ ~Contains(k)
    \/ Len(order) # Len(constraint_tree.nodes[k].child_keys)
    \/ SeqToSet(order) # SeqToSet(constraint_tree.nodes[k].child_keys)

\* C8: insert, remove and set at a key not in the tree, rebase with an absent
\* key or onto the node itself or a descendant, and reorder_children with
\* other keys than the node's children fail, and a mutation that fails
\* leaves the constraint tree, the frames and the dirty flag as they were.
C8_FailedMutation ==
    [][/\ ret'.res = "fail" =>
             UNCHANGED <<constraint_tree, frame_tree, key_map, is_dirty, next_key>>
       /\ ret'.res # "fail" =>
             \A k \in CallerKeys :
                /\ \A c \in InsertConstraints :
                      ~(ret'.op = "insert" /\ InsertFails(k) /\ Insert(c, k))
                /\ \A c \in SetConstraints :
                      ~(ret'.op = "set" /\ ~Contains(k) /\ Set(k, c))
                /\ ~(ret'.op = "remove" /\ ~Contains(k) /\ Remove(k))
                /\ \A p \in CallerKeys :
                      ~(ret'.op = "rebase" /\ RebaseFails(k, p) /\ Rebase(k, p))
                /\ \A order \in Reorderings(k) :
                      ~(ret'.op = "reorder_children" /\ ReorderFails(k, order)
                          /\ ReorderChildren(k, order))]_vars

\* C8 witness: a rebase failed on a solved tree of three nodes, which is
\* still clean.
C8_Witness ==
    /\ ret = Returned("rebase", "fail")
    /\ ~is_dirty
    /\ Cardinality(DOMAIN constraint_tree.nodes) = 3
    /\ GetFrame(constraint_tree.root_key).res = "Some"

GoneKeys == {k \in CallerKeys : ~Contains(k)}

\* C10: a successful remove takes the key and its whole subtree out of the
\* tree and leaves is_dirty() true; a key that is gone stays gone, get and
\* get_frame report it absent, and insert under it, set, remove and rebase
\* of it or onto it fail.
C10_RemovedStaysAbsent ==
    /\ [](\A k \in GoneKeys :
             Get(k) = None /\ GetFrame(k).res = "None")
    /\ [][/\ (ret'.op = "remove" /\ ret'.res = "ok") =>
                /\ is_dirty'
                /\ \E k \in DOMAIN constraint_tree.nodes :
                      DOMAIN constraint_tree'.nodes
                        = DOMAIN constraint_tree.nodes \ Subtree(constraint_tree, k)
          /\ \A k \in GoneKeys :
                /\ ~Contains(k)'
                /\ \A c \in InsertConstraints : Insert(c, k) => ret'.res = "fail"
                /\ \A c \in SetConstraints : Set(k, c) => ret'.res = "fail"
                /\ Remove(k) => ret'.res = "fail"
                /\ \A p \in CallerKeys :
                      (Rebase(k, p) \/ Rebase(p, k)) => ret'.res = "fail"]_vars

\* C10 witness: a remove took out the root and at least one descendant: the
\* tree is empty and the solver dirty.
C10_Witness ==
    /\ ret = Returned("remove", "ok")
    /\ TreeIsEmpty(constraint_tree)
    /\ is_dirty
    /\ next_key = 3

(***************************************************************************)
(* The layout specification: the solver applied to the constraint trees    *)
(* that insert_root and insert build from a richer set of constraints.     *)
(* Every length here is a multiple of 120, so that the shares of weight    *)
(* totals up to 6 and the halves of Align::Middle are exact.               *)
(***************************************************************************)
\* Bound of the layout exploration: the nodes of a tree.
MaxLayoutNodes == 3

\* Roots insert_root accepts: a padded row, a plain row with Align::End, and
\* Constraint::default(), whose direction is Vertical.
PaddedRow ==
    Constraint(Relative(Scale(1), Scale(1)),
               Content("Horizontal", Padding(120, 120, 0, 120), "Middle", "Middle"))

EndRow ==
    Constraint(Absolute(Scale(1), Scale(1)),
               Content("Horizontal", NoPadding, "End", "End"))

LayoutRoots == {PaddedRow, EndRow, DefaultConstraint}

\* Children: Exact on both axes with padding wider than the node, a negative
\* Exact, Scale weights 1, 2 and 0, and Minimize on both axes.
WideExact ==
    Constraint(Absolute(Exact(120), Exact(240)),
               Content("Horizontal", Padding(240, 120, 0, 0), "Start", "Start"))

NegativeExact ==
    Constraint(Absolute(Exact(-120), Scale(1)),
               Content("Horizontal", NoPadding, "Start", "Start"))

ScaleOne ==
    Constraint(Relative(Scale(1), Scale(1)),
               Content("Horizontal", Padding(120, 0, 0, 0), "End", "Start"))

ScaleTwo ==
    Constraint(Relative(Scale(2), Exact(120)),
               Content("Horizontal", NoPadding, "Middle", "End"))

ScaleZero ==
    Constraint(Absolute(Scale(0), Scale(0)),
               Content("Horizontal", NoPadding, "Start", "Start"))

ShrinkToFit ==
    Constraint(Relative(Minimize, Minimize),
               Content("Horizontal", Padding(120, 0, 120, 0), "Start", "Middle"))

LayoutChildren == {WideExact, NegativeExact, ScaleOne, ScaleTwo, ScaleZero, ShrinkToFit}

\* The (length_x, length_y) pairs passed to solve on these trees.
LayoutLengths == {<<-120, 240>>, <<480, 240>>}

RECURSIVE Grow(_, _, _, _, _)
\* insert(values[k], parents[k]) for the keys k .. n, in order.
Grow(t, k, n, parents, values) ==
    IF k > n THEN t
    ELSE Grow(TreeInsert(t, k, values[k], parents[k]), k + 1, n, parents, values)

\* The parent of every key 2 .. n: a key inserted earlier.
ParentChoices(n) == {parents \in [2 .. n -> 1 .. n] : \A k \in 2 .. n : parents[k] < k}

\* The trees of n nodes that insert_root followed by n - 1 inserts builds.
TreesOf(n) ==
    {Grow(TreeInsertRoot(TreeNew, 1, root), 2, n, parents, values) :
        root \in LayoutRoots, parents \in ParentChoices(n),
        values \in [2 .. n -> LayoutChildren]}

LayoutTrees == UNION {TreesOf(n) : n \in 1 .. MaxLayoutNodes}

\* The solver after the insertions, before the first solve.
LayoutInit ==
    /\ constraint_tree \in LayoutTrees
    /\ frame_tree = TreeNew
    /\ key_map = EmptyFcn
    /\ is_dirty = TRUE
    /\ next_key = Cardinality(DOMAIN constraint_tree.nodes) + 1
    /\ ret = Returned(IF next_key = 2 THEN "insert_root" ELSE "insert", "ok")

\* A caller that solves, and replaces the value of a node.
LayoutNext ==
    \/ \E l \in LayoutLengths : Solve(l[1], l[2])
    \/ \E k \in CallerKeys, c \in SetConstraints : Set(k, c)

SpecLayout == LayoutInit /\ [][LayoutNext]_vars

\* The frames a caller can read.
ReadableFrames == {GetFrame(k).value : k \in {j \in CallerKeys : GetFrame(j).res = "Some"}}

\* C11: after a solve, every frame readable through get_frame has
\* length_x >= 0 and length_y >= 0.
C11_NonNegativeLengths ==
    \A frame \in ReadableFrames : frame.length_x >= 0 /\ frame.length_y >= 0

\* The keys whose frame a caller can read.
FramedKeys == {k \in CallerKeys : GetFrame(k).res = "Some"}

FrameAt(k) == GetFrame(k).value

PaddingAt(k) == constraint_tree.nodes[k].value.content.padding

\* The content rectangle the claim states for one axis: total length L and
\* padding (start, end).
ContentOffset(start, L) == Min(start, L)
ContentLength(start, end, L) == Max(Max(L - end, 0) - Min(start, L), 0)

\* C12: for a node of total length L on an axis with padding (start, end) on
\* that axis, generate_content_frame gives offset min(start, L) and length
\* max(max(L - end, 0) - min(start, L), 0), on each axis independently.
C12_ContentRectangle ==
    \A k \in FramedKeys :
        GenerateContentFrame(PaddingAt(k), FrameAt(k).length_x, FrameAt(k).length_y)
          = Frame(ContentOffset(PaddingAt(k).left, FrameAt(k).length_x),
                  ContentLength(PaddingAt(k).left, PaddingAt(k).right, FrameAt(k).length_x),
                  ContentOffset(PaddingAt(k).top, FrameAt(k).length_y),
                  ContentLength(PaddingAt(k).top, PaddingAt(k).bottom, FrameAt(k).length_y))

\* C12 witness: a solved node whose left padding exceeds its positive
\* length_x, with a child: the child's frame starts at the node's length_x,
\* where the content rectangle is clamped, and has length_x 0.
C12_Witness ==
    \E k \in FramedKeys :
        /\ FrameAt(k).length_x > 0
        /\ PaddingAt(k).left > FrameAt(k).length_x
        /\ \E j \in FramedKeys :
              /\ constraint_tree.nodes[j].parent_key = k
              /\ FrameAt(j).offset_x = FrameAt(k).length_x
              /\ FrameAt(j).length_x = 0

\* The children of k in order, and what the claims say about one parent.
ChildrenOf(k) == constraint_tree.nodes[k].child_keys

ContentAt(k) ==
    GenerateContentFrame(PaddingAt(k), FrameAt(k).length_x, FrameAt(k).length_y)

MainFill(j) == ToAbsoluteFillHorizontal(constraint_tree.nodes[j].value.fill).x

RECURSIVE SumOver(_, _, _)
\* The sum of Op(keys[i]) for i .. Len(keys).
SumOver(Op(_), keys, i) ==
    IF i > Len(keys) THEN 0 ELSE Op(keys[i]) + SumOver(Op, keys, i + 1)

Weight(j) == IF MainFill(j).t = "Scale" THEN MainFill(j).v ELSE 0

MainLength(j) == FrameAt(j).length_x

TotalWeight(k) == SumOver(Weight, ChildrenOf(k), 1)

TotalMainLength(k) == SumOver(MainLength, ChildrenOf(k), 1)

\* The alignment gap before the first child of k.
MainGap(k) ==
    IF TotalWeight(k) # 0 THEN 0
    ELSE LET leftover == ContentAt(k).length_x - TotalMainLength(k)
             align_main == constraint_tree.nodes[k].value.content.align_main
         IN  CASE align_main = "Start" -> 0
               [] align_main = "Middle" -> leftover \div 2
               [] align_main = "End" -> leftover

\* The first child starts at the parent's content start plus the gap.
FirstChildPlaced(k) ==
    ChildrenOf(k) # <<>> =>
        FrameAt(ChildrenOf(k)[1]).offset_x = ContentAt(k).offset_x + MainGap(k)

\* Each later child starts where the previous child ends.
LaterChildrenPlaced(k) ==
    \A i \in 2 .. Len(ChildrenOf(k)) :
        FrameAt(ChildrenOf(k)[i]).offset_x
          = FrameAt(ChildrenOf(k)[i - 1]).offset_x + FrameAt(ChildrenOf(k)[i - 1]).length_x

\* The first half of C13 alone.
FirstChildrenPlaced == \A k \in FramedKeys : FirstChildPlaced(k)

\* C13: after a solve, the children of every node are packed contiguously
\* along the main axis in child order: the first child at the content start
\* plus the alignment gap, each later child at the previous child's offset
\* plus the previous child's length.
C13_PackedInOrder ==
    \A k \in FramedKeys : FirstChildPlaced(k) /\ LaterChildrenPlaced(k)

\* The second pass as the claim states it: remaining is what the first pass
\* left; every Scale(w) child of k has (w / total_weight) * remaining, and 0
\* when the total is 0.
SharesAssigned(k, remaining) ==
    \A i \in 1 .. Len(ChildrenOf(k)) :
        MainFill(ChildrenOf(k)[i]).t = "Scale" =>
            MainLength(ChildrenOf(k)[i])
              = IF TotalWeight(k) = 0 THEN 0
                ELSE (MainFill(ChildrenOf(k)[i]).v * remaining) \div TotalWeight(k)

RECURSIVE MainLengthsAssigned(_, _, _)
\* The first pass as the claim states it, from child i on with `remaining`
\* main length left: Exact(v) has min(v, remaining), Minimize has at most
\* remaining, each reducing what is left.
MainLengthsAssigned(k, i, remaining) ==
    IF i > Len(ChildrenOf(k)) THEN SharesAssigned(k, remaining)
    ELSE CASE MainFill(ChildrenOf(k)[i]).t = "Exact" ->
                /\ MainLength(ChildrenOf(k)[i]) = Min(MainFill(ChildrenOf(k)[i]).v, remaining)
                /\ MainLengthsAssigned(k, i + 1, remaining - MainLength(ChildrenOf(k)[i]))
           [] MainFill(ChildrenOf(k)[i]).t = "Minimize" ->
                /\ MainLength(ChildrenOf(k)[i]) <= remaining
                /\ MainLengthsAssigned(k, i + 1, remaining - MainLength(ChildrenOf(k)[i]))
           [] MainFill(ChildrenOf(k)[i]).t = "Scale" ->
                MainLengthsAssigned(k, i + 1, remaining)

Flipped(direction) == IF direction = "Horizontal" THEN "Vertical" ELSE "Horizontal"

SwappedFrame(frame) ==
    Frame(frame.offset_y, frame.length_y, frame.offset_x, frame.length_x)

SwappedPadding(padding) ==
    Padding(padding.top, padding.bottom, padding.left, padding.right)

\* The node's fill in absolute terms: a Relative fill is relative to the
\* parent's direction, the root's to Vertical.
AbsoluteFillAt(t, k) ==
    ToAbsoluteFill(t.nodes[k].value.fill,
        IF t.nodes[k].parent_key = None THEN "Vertical"
        ELSE t.nodes[t.nodes[k].parent_key].value.content.direction)

SwappedConstraint(t, k) ==
    Constraint(Absolute(AbsoluteFillAt(t, k).y, AbsoluteFillAt(t, k).x),
               Content(Flipped(t.nodes[k].value.content.direction),
                       SwappedPadding(t.nodes[k].value.content.padding),
                       t.nodes[k].value.content.align_main,
                       t.nodes[k].value.content.align_cross))

\* The same tree with every direction flipped and every absolute fill and
\* padding x/y-swapped.
Transposed(t) ==
    [t EXCEPT !.nodes = [k \in DOMAIN t.nodes |->
                            [t.nodes[k] EXCEPT !.value = SwappedConstraint(t, k)]]]

\* Two results of the solver that are mirror images of each other.
MirrorResults(v, h) ==
    /\ v.panic = h.panic
    /\ ~v.panic =>
          /\ v.key_map = h.key_map
          /\ DOMAIN v.frame_tree.nodes = DOMAIN h.frame_tree.nodes
          /\ \A fk \in DOMAIN v.frame_tree.nodes :
                v.frame_tree.nodes[fk].value = SwappedFrame(h.frame_tree.nodes[fk].value)

\* Two results of the Minimize Resolver that are mirror images.
MirrorMinimizing(v, h) ==
    /\ v.panic = h.panic
    /\ ~v.panic => (v.x = h.y /\ v.y = h.x)

\* C15: a Vertical parent lays out its children as a Horizontal parent does
\* with x and y exchanged: solving the tree solve was called on gives the x/y-swapped frames of
\* solving its mirror image with the lengths exchanged, and the Minimize
\* Resolver under Vertical gives the swapped result of the resolver under
\* Horizontal on the mirror image with the budgets exchanged.
C15_VerticalAsHorizontal ==
    (ret.op = "solve" /\ ~TreeIsEmpty(constraint_tree)) =>
        \A l \in LayoutLengths :
            /\ MirrorResults(
                   SolverSolve(constraint_tree, TreeNew, EmptyFcn,
                               Max(l[1], 0), Max(l[2], 0)),
                   SolverSolve(Transposed(constraint_tree), TreeNew, EmptyFcn,
                               Max(l[2], 0), Max(l[1], 0)))
            /\ \A k \in DOMAIN constraint_tree.nodes :
                  MirrorMinimizing(
                      FindMinimizingLength(constraint_tree, ChildrenOf(k), "Vertical",
                                           Max(l[1], 0), Max(l[2], 0), 1),
                      FindMinimizingLength(Transposed(constraint_tree), ChildrenOf(k),
                                           "Horizontal", Max(l[2], 0), Max(l[1], 0), 1))

RECURSIVE Required(_, _, _, _, _)
\* The Minimize Resolver as the claim states it, for the siblings keys[i ..]
\* with `remaining` main budget left: main is the sum of the contributions,
\* each capped by what the earlier siblings left, cross the largest cross
\* requirement.  A Minimize sibling contributes the resolver's result on its
\* own children.
Required(t, keys, i, remaining, max_cross) ==
    IF i > Len(keys) THEN [main |-> 0, cross |-> 0]
    ELSE
      LET value == t.nodes[keys[i]].value
          fill == ToAbsoluteFillHorizontal(value.fill)
          pad == value.content.padding
          own == Required(t, t.nodes[keys[i]].child_keys, 1, remaining, max_cross)
          contribution ==
              Min(CASE fill.x.t = "Exact" -> fill.x.v + pad.left + pad.right
                    [] fill.x.t = "Scale" -> pad.left + pad.right
                    [] fill.x.t = "Minimize" -> own.main + pad.left + pad.right,
                  remaining)
          cross ==
              CASE fill.y.t = "Exact" -> fill.y.v + pad.top + pad.bottom
                [] fill.y.t = "Scale" -> pad.top + pad.bottom
                [] fill.y.t = "Minimize" -> Min(own.cross, max_cross)
          rest == Required(t, keys, i + 1, remaining - contribution, max_cross)
      IN  [main |-> contribution + rest.main, cross |-> Max(cross, rest.cross)]

\* The result of find_minimizing_length is what the claim states.
ResolverAgrees(result, required, max_main, max_cross) ==
    /\ ~result.panic
    /\ result.x = required.main
    /\ result.x <= max_main
    /\ result.y = Min(required.cross, max_cross)

\* The siblings under k include one that is Minimize on an axis.
HasMinimizeChild(k) ==
    \E i \in 1 .. Len(ChildrenOf(k)) :
        \/ ToAbsoluteFillHorizontal(constraint_tree.nodes[ChildrenOf(k)[i]].value.fill).x.t = "Minimize"
        \/ ToAbsoluteFillHorizontal(constraint_tree.nodes[ChildrenOf(k)[i]].value.fill).y.t = "Minimize"

ResolverAgreesAt(k, l) ==
    ResolverAgrees(
        FindMinimizingLength(constraint_tree, ChildrenOf(k), "Horizontal",
                             Max(l[1], 0), Max(l[2], 0), 1),
        Required(constraint_tree, ChildrenOf(k), 1, Max(l[1], 0), Max(l[2], 0)),
        Max(l[1], 0), Max(l[2], 0))

\* C16 restricted to sibling lists without a Minimize sibling.
ResolverWithoutMinimize ==
    (ret.op = "solve" /\ ~TreeIsEmpty(constraint_tree)) =>
        \A k \in DOMAIN constraint_tree.nodes : \A l \in LayoutLengths :
            ~HasMinimizeChild(k) => ResolverAgreesAt(k, l)

\* C16: for the siblings under any node of the tree solve was called on and
\* the budgets (max_main, max_cross), the Minimize Resolver returns as main
\* length the sum in sibling order of each sibling's contribution capped by
\* the remaining budget (Exact: v plus main padding; Scale: main padding;
\* Minimize: the resolver's result on the sibling's own children plus main
\* padding), never more than max_main, and as cross length the largest
\* per-sibling cross requirement capped by max_cross.
C16_ResolverResult ==
    (ret.op = "solve" /\ ~TreeIsEmpty(constraint_tree)) =>
        \A k \in DOMAIN constraint_tree.nodes : \A l \in LayoutLengths :
            ResolverAgreesAt(k, l)

====
